---- MODULE Spec2Model ----
(***************************************************************************)
(* Model of Algorithm.Python/DynamicBreakoutAlgoTutorial.py:               *)
(* DynamicBreakoutAlgorithm.Initialize and the daily scheduled handler     *)
(* DynamicBreakoutAlgorithm.SetSignal.                                     *)
(*                                                                         *)
(* Prices are integers.  A standard deviation is kept exactly as the pair  *)
(* [num, cnt] standing for sqrt(num)/cnt, a mean as the pair [sum, cnt]    *)
(* standing for sum/cnt; comparisons and the rounding of line 65 are done  *)
(* on these pairs in exact integer arithmetic (floating-point rounding     *)
(* error of numpy is not modelled).                                        *)
(***************************************************************************)
EXTENDS Integers, Sequences, FiniteSets, TLC

VARIABLES
    market,          \* daily bars the history provider holds, oldest first
    day,             \* trading days elapsed since Initialize
    due,             \* the scheduler has a SetSignal call pending for today
    Bolband,         \* self.Bolband: period, k, IsReady, UpperBand, LowerBand
    Portfolio,       \* self.Portfolio[self.syl]: Quantity, Price
    numdays,         \* self.numdays
    high,            \* self.high
    low,             \* self.low
    buypoint,        \* self.buypoint
    sellpoint,       \* self.sellpoint
    longLiqPoint,    \* self.longLiqPoint
    shortLiqPoint,   \* self.shortLiqPoint
    yesterdayclose,  \* self.yesterdayclose
    ev               \* what today's SetSignal call did (see NoEval)

vars == <<market, day, due, Bolband, Portfolio, numdays, high, low, buypoint,
          sellpoint, longLiqPoint, shortLiqPoint, yesterdayclose, ev>>

fields == <<numdays, high, low, buypoint, sellpoint, longLiqPoint,
            shortLiqPoint, yesterdayclose>>

-----------------------------------------------------------------------------
(* Bounds of the model and the inputs the environment draws from.          *)

\* trading days (new bars) after Initialize
MaxDays == 2

\* Python's None
None == "None"

\* self.ceiling, self.floor (line 53)
ceiling == 60
floor == 20

\* bars requested for the volatility samples (line 61)
VolBars == 31

Bar(h, l, c) == [high |-> h, low |-> l, close |-> c]

\* a quiet day, and the days the market can add
BaseBar == Bar(2, 2, 2)
BarSet == {BaseBar, Bar(3, 2, 3), Bar(2, 1, 1), Bar(4, 2, 4)}

\* lengths of the history available when the algorithm starts
InitLens == {2, 25, 31, 36, 40, 61}

\* band values (UpperBand, LowerBand) and current prices the platform can show
BandSet == {<<2, 2>>, <<3, 1>>}

\* the same with a pair no moving-average band produces (UpperBand below
\* LowerBand): the band is a collaborator, and the handler reads whatever
\* values it shows
AnyBandSet == BandSet \cup {<<1, 3>>}
PriceSet == {1, 2, 3}

Repeat(x, n) == [i \in 1..n |-> x]

\* 31 bars, quiet for the last 26 days after one move
QuietAfterMove == Repeat(BaseBar, 4) \o <<Bar(3, 2, 3)>> \o Repeat(BaseBar, 26)

\* no history at all, or an old bar, quiet days and the latest bar
InitMarkets ==
    {<< >>, QuietAfterMove}
    \cup {<<f>> \o Repeat(BaseBar, n - 2) \o <<l>> :
              f \in BarSet, l \in BarSet, n \in InitLens}

-----------------------------------------------------------------------------
(* Helpers: pandas / numpy / builtins used by SetSignal.                   *)

Min2(a, b) == IF a <= b THEN a ELSE b
Max2(a, b) == IF a >= b THEN a ELSE b

\* self.History(self.syl, n, Resolution.Daily): the n most recent daily bars,
\* oldest first; fewer when the provider holds fewer.
History(n) ==
    LET k == Min2(n, Len(market))
    IN SubSeq(market, Len(market) - k + 1, Len(market))

\* df['close'], df['high'], df['low']
Column(bars, f) == [i \in 1..Len(bars) |-> bars[i][f]]

\* s[a:b] for 0 <= a <= b (positional slice, clipped to the length)
Slice(s, a, b) == SubSeq(s, a + 1, Min2(b, Len(s)))

\* sum(s[1..i]), sum of squares, max and min of s[1..i], by index
RECURSIVE SumTo(_, _)
SumTo(s, i) == IF i = 0 THEN 0 ELSE s[i] + SumTo(s, i - 1)

RECURSIVE SumSqTo(_, _)
SumSqTo(s, i) == IF i = 0 THEN 0 ELSE s[i] * s[i] + SumSqTo(s, i - 1)

RECURSIVE MaxTo(_, _)
MaxTo(s, i) == IF i = 1 THEN s[1] ELSE Max2(s[i], MaxTo(s, i - 1))

RECURSIVE MinTo(_, _)
MinTo(s, i) == IF i = 1 THEN s[1] ELSE Min2(s[i], MinTo(s, i - 1))

SeqSum(s) == SumTo(s, Len(s))
SeqSumSq(s) == SumSqTo(s, Len(s))

\* max(s), min(s) of a non-empty series
SeqMax(s) == MaxTo(s, Len(s))
SeqMin(s) == MinTo(s, Len(s))

\* np.std(s), population standard deviation (ddof = 0):
\* sqrt(cnt * sum(x^2) - sum(x)^2) / cnt, kept as [num, cnt]; cnt = 0 is nan.
std(s) == [num |-> Len(s) * SeqSumSq(s) - SeqSum(s) * SeqSum(s), cnt |-> Len(s)]

\* np.mean(s) = sum / cnt, kept as [sum, cnt]
mean(s) == [sum |-> SeqSum(s), cnt |-> Len(s)]

\* price <= m and price >= m for an integer price and a mean m (cnt > 0)
LeqMean(p, m) == p * m.cnt <= m.sum
GeqMean(p, m) == p * m.cnt >= m.sum

-----------------------------------------------------------------------------
(* Lines 62-65: the lookback adjustment.                                   *)

\* a / b <= c / d for a, c >= 0 and b, d > 0, by continued fractions (no
\* product is formed, so no intermediate value exceeds its arguments)
RECURSIVE LeqFrac(_, _, _, _)
LeqFrac(a, b, c, d) ==
    LET qa == a \div b
        qc == c \div d
        ra == a % b
        rc == c % d
    IN IF qa # qc THEN qa < qc
       ELSE IF ra = 0 THEN TRUE
       ELSE IF rc = 0 THEN FALSE
       ELSE LeqFrac(d, rc, b, ra)

\* With todayvol = sqrt(t.num)/t.cnt > 0 and yesterdayvol = sqrt(y.num)/y.cnt,
\*   x = n * (1 + (todayvol - yesterdayvol) / todayvol) = n * (2 - yesterdayvol/todayvol).
\* x >= r - 1/2  <=>  2n * yesterdayvol/todayvol <= 4n - 2r + 1
\*               <=>  4n - 2r + 1 >= 0  and
\*                    (2n * t.cnt)^2 * y.num <= ((4n - 2r + 1) * y.cnt)^2 * t.num
HalfBelow(n, t, y, r) ==
    LET B == 4 * n - 2 * r + 1
        a == 2 * n * t.cnt
        b == B * y.cnt
    IN /\ B >= 0
       /\ \/ y.num = 0
          \/ LeqFrac(a * a, t.num, b * b, y.num)

\* x = r - 1/2 exactly
HalfTie(n, t, y, r) ==
    LET B == 4 * n - 2 * r + 1
        a == 2 * n * t.cnt
        b == B * y.cnt
    IN /\ B >= 0
       /\ IF y.num = 0 THEN b = 0
          ELSE LeqFrac(a * a, t.num, b * b, y.num) /\ LeqFrac(b * b, y.num, a * a, t.num)

\* a step s with x >= (2n - s) - 1/2
RECURSIVE LowStep(_, _, _, _)
LowStep(n, t, y, s) ==
    IF HalfBelow(n, t, y, 2 * n - s) THEN s ELSE LowStep(n, t, y, 2 * s)

\* the largest r in lo..hi-1 with x >= r - 1/2, given it holds at lo and not at hi
RECURSIVE Bisect(_, _, _, _, _)
Bisect(n, t, y, lo, hi) ==
    IF hi = lo + 1 THEN lo
    ELSE LET mid == (lo + hi) \div 2
         IN IF HalfBelow(n, t, y, mid) THEN Bisect(n, t, y, mid, hi)
            ELSE Bisect(n, t, y, lo, mid)

\* int(round(n * (1 + deltavol))) of line 65 (Python 3 round: ties to even);
\* x <= 2n, so the search starts below 2n + 1
Adjusted(n, t, y) ==
    LET r0 == Bisect(n, t, y, 2 * n - LowStep(n, t, y, 1), 2 * n + 1)
    IN IF HalfTie(n, t, y, r0) /\ r0 % 2 = 1 THEN r0 - 1 ELSE r0

\* Clamp without the test of line 67
ClampNoCeiling(n) == IF n < floor THEN floor ELSE n

\* Clamp without the test of line 69
ClampNoFloor(n) == IF n > ceiling THEN ceiling ELSE n

\* lines 67-70
Clamp(n) ==
    IF n > ceiling THEN ceiling
    ELSE IF n < floor THEN floor
    ELSE n

\* Lines 64-65 with todayvol = 0 or nan: the division yields nan or -inf
\* (numpy.float64, a warning) or raises ZeroDivisionError (float); int(round())
\* of nan raises ValueError and of -inf OverflowError.  Either way an
\* exception leaves SetSignal before self.numdays is assigned.
VolErrors(t, y) ==
    IF t.cnt = 0 THEN {"ValueError"}
    ELSE IF t.num = 0
         THEN {"ZeroDivisionError", IF y.num = 0 THEN "ValueError" ELSE "OverflowError"}
         ELSE {}

-----------------------------------------------------------------------------
(* Lines 83-97: the gate, the decision block and the log record.           *)

\* a gate that never returns early
PassesGateAlways(band) == TRUE

\* line 83: the handler goes on only when the band is ready
PassesGate(band) == band.IsReady

\* lines 87-90 with the price tests made strict
EntryCommandsStrict(yc, band, price, bp, sp) ==
    IF yc > band.UpperBand /\ price > bp THEN <<"SetTargetLong">>
    ELSE IF yc < band.LowerBand /\ price < sp THEN <<"SetTargetShort">>
    ELSE << >>

\* lines 87-90 as two independent tests
EntryCommandsIndependent(yc, band, price, bp, sp) ==
    (IF yc > band.UpperBand /\ price >= bp THEN <<"SetTargetLong">> ELSE << >>)
    \o (IF yc < band.LowerBand /\ price <= sp THEN <<"SetTargetShort">> ELSE << >>)

\* lines 87-90
EntryCommands(yc, band, price, bp, sp) ==
    IF yc > band.UpperBand /\ price >= bp THEN <<"SetTargetLong">>
    ELSE IF yc < band.LowerBand /\ price <= sp THEN <<"SetTargetShort">>
    ELSE << >>

\* lines 92-95 with the price tests made strict
ExitCommandsStrict(holdings, price, liq) ==
    IF holdings > 0 /\ ~GeqMean(price, liq) THEN <<"Liquidate">>
    ELSE IF holdings < 0 /\ ~LeqMean(price, liq) THEN <<"Liquidate">>
    ELSE << >>

\* lines 92-95 (both branches compare with self.shortLiqPoint)
ExitCommands(holdings, price, liq) ==
    IF holdings > 0 /\ LeqMean(price, liq) THEN <<"Liquidate">>
    ELSE IF holdings < 0 /\ GeqMean(price, liq) THEN <<"Liquidate">>
    ELSE << >>

\* line 78
LongLiqPointOf(historyclose) == mean(historyclose)

\* a short liquidation level taken from the last close alone
ShortLiqPointLastClose(historyclose) ==
    [sum |-> historyclose[Len(historyclose)], cnt |-> 1]

\* line 79
ShortLiqPointOf(historyclose) == mean(historyclose)

\* the level requests made with the lookback the call started with
LevelWindowPrevious(nd, prev) == prev

\* lines 72, 73, 77: the three requests ask for self.numdays bars after lines
\* 65-70 assigned it (nd), not the value the call started with (prev)
LevelWindow(nd, prev) == nd

\* a band whose period follows the adjusted lookback
BandTracksNumdays(band, nd) == [band EXCEPT !.period = nd]

\* lines 59-97 hold no write to self.Bolband: the band object built at line 57
\* (period = the numdays of that moment, k = 2) is only read (lines 83, 87, 89)
BandAfterSignal(band, nd) == band

\* line 97: str(yesterdayclose) + " # of days " + str(numdays)
LogRecord(yc, n) == [yesterdayclose |-> yc, numdays |-> n]

\* the position manager: SetHoldings(syl, 1), SetHoldings(syl, -1) and
\* Liquidate(syl) take effect at once, in the order dispatched
RECURSIVE Executed(_, _)
Executed(q, cmds) ==
    IF cmds = << >> THEN q
    ELSE Executed(CASE Head(cmds) = "SetTargetLong" -> 1
                    [] Head(cmds) = "SetTargetShort" -> -1
                    [] OTHER -> 0,
                  Tail(cmds))

\* line 85 moved below the entry rules: the quantity the entry left
HoldingsReadAfterEntry(q, entry) == Executed(q, entry)

\* line 85: holdings is read before the entry rules dispatch anything
HoldingsRead(q, entry) == q

-----------------------------------------------------------------------------
(* The state machine.                                                      *)

\* The record of today's call: ran (SetSignal was called), raised (the
\* exception it left by, or None), prevNumdays (self.numdays on entry), ready
\* (Bolband.IsReady as the call saw it), holdings (the local of line 85),
\* dispatched (SetHoldings / Liquidate calls, in order), logged (Log calls),
\* assigned (lines 65-80 ran: numdays and the levels were assigned).
\* NoEval: nothing evaluated yet today.
NoEval == [ran |-> FALSE, raised |-> None, prevNumdays |-> None,
           ready |-> FALSE, holdings |-> None, assigned |-> FALSE,
           dispatched |-> << >>, logged |-> << >>]

\* the initial lookback and the band's multiplier (lines 52, 57)
InitialNumdays == 20
BandK == 2

\* Initialize (lines 43-57), with the history the provider already holds
Init ==
    /\ market \in InitMarkets
    /\ day = 0
    /\ due = TRUE
    /\ numdays = InitialNumdays
    /\ buypoint = None /\ sellpoint = None
    /\ longLiqPoint = None /\ shortLiqPoint = None /\ yesterdayclose = None
    /\ high = None /\ low = None
    /\ Bolband = [period |-> InitialNumdays, k |-> BandK, IsReady |-> FALSE,
                  UpperBand |-> 0, LowerBand |-> 0]
    /\ \E p \in PriceSet : Portfolio = [Quantity |-> 0, Price |-> p]
    /\ ev = NoEval

\* A trading day passes: the provider gains a daily bar, the platform updates
\* the band and the current price, and the scheduler queues today's SetSignal.
\* The band's warm-up lies outside the horizon of the model: IsReady turns
\* TRUE on some day on which the provider holds at least `period` bars, and
\* stays TRUE.  An exception raised by SetSignal ends the run.
NewBarFrom(bands) ==
    /\ ~due
    /\ ev.raised = None
    /\ day < MaxDays
    /\ \E b \in BarSet, bv \in bands, p \in PriceSet, rdy \in BOOLEAN :
        /\ Bolband.IsReady => rdy
        /\ rdy => Len(market) + 1 >= Bolband.period
        /\ market' = Append(market, b)
        /\ Bolband' = [Bolband EXCEPT !.IsReady = rdy,
                                      !.UpperBand = bv[1], !.LowerBand = bv[2]]
        /\ Portfolio' = [Portfolio EXCEPT !.Price = p]
    /\ day' = day + 1
    /\ due' = TRUE
    /\ ev' = NoEval
    /\ UNCHANGED fields

NewBar == NewBarFrom(BandSet)

\* the same day with any pair of band values
NewBarAnyBand == NewBarFrom(AnyBandSet)

\* SetSignal leaves by an exception e: nothing was assigned
Raise(e) ==
    /\ ev' = [NoEval EXCEPT !.ran = TRUE, !.raised = e, !.prevNumdays = numdays,
                            !.ready = Bolband.IsReady]
    /\ UNCHANGED <<fields, Portfolio, Bolband>>

\* lines 72-97, with self.numdays already adjusted to nd
Levels(nd) ==
    \E bars \in {History(LevelWindow(nd, numdays))} :
    \E historyclose \in {Column(bars, "close")} :
    LET bp == SeqMax(Column(bars, "high"))
        sp == SeqMin(Column(bars, "low"))
        yc == historyclose[Len(historyclose)]
        liq == ShortLiqPointOf(historyclose)
        holdings == Portfolio.Quantity
        entry == EntryCommands(yc, Bolband, Portfolio.Price, bp, sp)
    IN \E cmds \in {IF PassesGate(Bolband)
                    THEN entry \o ExitCommands(HoldingsRead(holdings, entry),
                                               Portfolio.Price, liq)
                    ELSE << >>} :
       /\ numdays' = nd
       /\ Bolband' = BandAfterSignal(Bolband, nd)
       /\ high' = Column(bars, "high")
       /\ low' = Column(bars, "low")
       /\ buypoint' = bp
       /\ sellpoint' = sp
       /\ longLiqPoint' = LongLiqPointOf(historyclose)
       /\ shortLiqPoint' = liq
       /\ yesterdayclose' = yc
       /\ Portfolio' = [Portfolio EXCEPT !.Quantity = Executed(@, cmds)]
       /\ ev' = [ran |-> TRUE, raised |-> None, prevNumdays |-> numdays,
                 ready |-> Bolband.IsReady, assigned |-> TRUE,
                 holdings |-> IF PassesGate(Bolband) THEN holdings ELSE None,
                 dispatched |-> cmds,
                 logged |-> IF PassesGate(Bolband)
                            THEN <<LogRecord(yc, nd)>> ELSE << >>]

\* lines 61-97
Evaluate ==
    \E close \in {Column(History(VolBars), "close")} :
    \E todayvol \in {std(Slice(close, 1, 31))} :
    \E yesterdayvol \in {std(Slice(close, 0, 30))} :
       IF close = << >>
       THEN Raise("KeyError")        \* line 61: an empty frame has no 'close'
       ELSE IF VolErrors(todayvol, yesterdayvol) # {}
       THEN \E e \in VolErrors(todayvol, yesterdayvol) : Raise(e)
       ELSE \E nd \in {Clamp(Adjusted(numdays, todayvol, yesterdayvol))} :
               Levels(nd)

\* a handler whose first statement is the readiness test of line 83
SetSignalGateFirst ==
    /\ due
    /\ due' = FALSE
    /\ UNCHANGED <<market, day>>
    /\ IF Bolband.IsReady
       THEN Evaluate
       ELSE /\ ev' = [NoEval EXCEPT !.ran = TRUE, !.prevNumdays = numdays]
            /\ UNCHANGED <<fields, Portfolio, Bolband>>

\* SetSignal (lines 59-97), the whole handler: the readiness test comes at
\* line 83, inside Levels, after the adjustment and the levels
SetSignal ==
    /\ due
    /\ due' = FALSE
    /\ UNCHANGED <<market, day>>
    /\ Evaluate

Next == NewBar \/ SetSignal

Spec == Init /\ [][Next]_vars

\* the handler under band values of any order
NextAnyBand == NewBarAnyBand \/ SetSignal

SpecAnyBand == Init /\ [][NextAnyBand]_vars

-----------------------------------------------------------------------------
(* What the properties below speak about.  SetSignal leaves market, Bolband *)
(* and Portfolio.Price as it found them and NewBar resets ev, so in a state *)
(* with ev.ran these are the inputs of the call that ev records.            *)

\* the call returned (at line 83 or after line 97) rather than raised
Completed == ev.ran /\ ev.raised = None

\* the closes line 61 fetched, and the two samples of lines 62-63
FetchedClose == Column(History(VolBars), "close")
TodayVol == std(Slice(FetchedClose, 1, 31))
YesterdayVol == std(Slice(FetchedClose, 0, 30))

\* todayvol == 0
TodayVolZero == TodayVol.cnt > 0 /\ TodayVol.num = 0

\* the value of line 65 before the clamp, in a completed call
Unclamped == Adjusted(ev.prevNumdays, TodayVol, YesterdayVol)

\* the provider returned fewer bars than line 61 or lines 72-77 asked for
ShortHistory ==
    \/ Len(market) < VolBars
    \/ Completed /\ Len(market) < numdays

-----------------------------------------------------------------------------
(* Properties.                                                             *)

\* C1: from the initial state (numdays 20, floor 20, ceiling 60) and after
\* every SetSignal call, whatever the closes were, floor <= numdays <= ceiling.
C1_NumdaysWithinBounds == floor <= numdays /\ numdays <= ceiling

\* a completed call whose rounded value exceeded the ceiling
C1_Witness == Completed /\ Unclamped > ceiling /\ numdays = ceiling

\* C2: a call with todayvol == 0 raises no error and leaves numdays as it
\* was.  Stated for calls that fetched all 31 closes, so that a short history
\* plays no part in it.
C2_ZeroVolKeepsNumdays ==
    (ev.ran /\ Len(FetchedClose) = VolBars /\ TodayVolZero)
    => (ev.raised = None /\ numdays = ev.prevNumdays)

\* C3: a call that finds the band not ready dispatches no SetHoldings and no
\* Liquidate, whatever the levels and the price are.
C3_NotReadyNoDispatch == (ev.ran /\ ~ev.ready) => ev.dispatched = << >>

\* band not ready although the long-entry tests of line 87 hold
C3_Witness ==
    /\ Completed /\ ~ev.ready
    /\ yesterdayclose > Bolband.UpperBand
    /\ Portfolio.Price >= buypoint

\* C4: no call dispatches more than one position command (an entry and a
\* Liquidate are never both dispatched).  Stated for the calls that got every
\* bar they asked for, so that a short history plays no part in it.
C4_AtMostOneCommand == (ev.ran /\ ~ShortHistory) => Len(ev.dispatched) <= 1

\* C5: a call in which the provider returned fewer bars than requested is
\* skipped: it dispatches nothing and raises nothing.
C5_ShortHistorySkipped ==
    (ev.ran /\ ShortHistory) => (ev.dispatched = << >> /\ ev.raised = None)

\* C6: band ready, holdings zero, yesterdayclose > UpperBand and
\* Price >= buypoint: the call dispatches SetTargetLong and nothing else.
C6_EntryLong ==
    ( /\ Completed /\ ev.ready
      /\ ev.holdings = 0
      /\ yesterdayclose > Bolband.UpperBand
      /\ Portfolio.Price >= buypoint )
    => ev.dispatched = <<"SetTargetLong">>

\* the case at the inclusive boundary Price = buypoint
C6_Witness ==
    /\ Completed /\ ev.ready
    /\ ev.holdings = 0
    /\ yesterdayclose > Bolband.UpperBand
    /\ Portfolio.Price = buypoint
    /\ Portfolio.Quantity = 1

\* C7: with the band ready, Liquidate is dispatched exactly when
\* (holdings > 0 and Price <= shortLiqPoint) or (holdings < 0 and
\* Price >= shortLiqPoint), holdings being the quantity read at line 85.
C7_LiquidateIff ==
    (Completed /\ ev.ready) =>
        ( (\E i \in 1..Len(ev.dispatched) : ev.dispatched[i] = "Liquidate")
          <=> \/ ev.holdings > 0 /\ LeqMean(Portfolio.Price, shortLiqPoint)
              \/ ev.holdings < 0 /\ GeqMean(Portfolio.Price, shortLiqPoint) )

\* a long position liquidated with Price exactly at shortLiqPoint
C7_Witness ==
    /\ Completed /\ ev.ready
    /\ ev.holdings > 0
    /\ Portfolio.Price * shortLiqPoint.cnt = shortLiqPoint.sum
    /\ ev.dispatched = <<"Liquidate">>

\* C9: every call, whether or not the band is ready, emits exactly one log
\* record, holding its yesterdayclose and its adjusted numdays.  Stated for
\* the calls that got every bar they asked for and return, so that neither a
\* short history nor an exception plays a part in it.
C9_OneLogRecord ==
    (Completed /\ ~ShortHistory)
    => ev.logged = <<LogRecord(yesterdayclose, numdays)>>

\* C10: longLiqPoint == shortLiqPoint in every state.
C10_LiqPointsEqual == longLiqPoint = shortLiqPoint

\* both levels computed, from a window whose mean differs from its last close
C10_Witness ==
    /\ Completed
    /\ yesterdayclose * longLiqPoint.cnt # longLiqPoint.sum

\* C11: the band's period is 20 and its multiplier 2 in every state: no call,
\* and no change of numdays, changes them.
C11_BandParametersFixed ==
    Bolband.period = InitialNumdays /\ Bolband.k = BandK

\* a completed call that moved numdays away from the band's period
C11_Witness == Completed /\ numdays # ev.prevNumdays /\ numdays # Bolband.period

\* C12: after a completed call numdays is r = round(previous numdays *
\* (1 + deltavol)) clamped into [floor, ceiling]: the ceiling when r is above
\* it, the floor when r is below it, r itself otherwise.
C12_StoredIsClampedRound ==
    Completed =>
        /\ Unclamped > ceiling => numdays = ceiling
        /\ Unclamped < floor => numdays = floor
        /\ (floor <= Unclamped /\ Unclamped <= ceiling) => numdays = Unclamped

\* a completed call whose rounded value fell below the floor
C12_Witness == Completed /\ Unclamped < floor /\ numdays = floor

\* the provider held the numdays bars lines 72-77 asked for; they are
\* market[WindowFrom .. Len(market)]
FullWindow == Completed /\ Len(market) >= numdays
WindowFrom == Len(market) - numdays + 1

\* C13: after a call, buypoint is the maximum high and sellpoint the minimum
\* low of exactly the numdays most recent bars, numdays being the value this
\* call adjusted, and yesterdayclose is the close of the last of them.
C13_LevelsFromAdjustedWindow ==
    FullWindow =>
        /\ high = [i \in 1..numdays |-> market[WindowFrom + i - 1].high]
        /\ low = [i \in 1..numdays |-> market[WindowFrom + i - 1].low]
        /\ \A i \in WindowFrom..Len(market) : market[i].high <= buypoint
        /\ \E i \in WindowFrom..Len(market) : market[i].high = buypoint
        /\ \A i \in WindowFrom..Len(market) : market[i].low >= sellpoint
        /\ \E i \in WindowFrom..Len(market) : market[i].low = sellpoint
        /\ yesterdayclose = market[Len(market)].close

\* the lookback grew in this call and buypoint is a high that only the grown
\* window holds
C13_Witness ==
    /\ FullWindow
    /\ ev.prevNumdays < numdays
    /\ \A i \in (Len(market) - ev.prevNumdays + 1)..Len(market) :
           market[i].high < buypoint

\* C14: the readiness test comes after the adjustment and the levels: a call
\* that finds the band not ready still adjusts numdays from the volatility
\* samples and overwrites buypoint, sellpoint, both liquidation points and
\* yesterdayclose from the bars it fetched; it only skips the decision block.
C14_GateAfterLevels ==
    (Completed /\ ~ev.ready) =>
        /\ ev.assigned
        /\ numdays = Max2(floor, Min2(ceiling, Unclamped))
        /\ buypoint = SeqMax(Column(History(numdays), "high"))
        /\ sellpoint = SeqMin(Column(History(numdays), "low"))
        /\ longLiqPoint = mean(Column(History(numdays), "close"))
        /\ shortLiqPoint = mean(Column(History(numdays), "close"))
        /\ yesterdayclose = market[Len(market)].close
        /\ ev.dispatched = << >>

\* a later day's call with the band still not ready that changed numdays
C14_Witness ==
    /\ Completed /\ ~ev.ready
    /\ day >= 1
    /\ numdays # ev.prevNumdays

\* the tests of line 87 and of line 89, on the values the call used
LongTest == yesterdayclose > Bolband.UpperBand /\ Portfolio.Price >= buypoint
ShortTest == yesterdayclose < Bolband.LowerBand /\ Portfolio.Price <= sellpoint

\* the call dispatched command c
Dispatched(c) == \E i \in 1..Len(ev.dispatched) : ev.dispatched[i] = c

\* C15: no call dispatches both SetTargetLong and SetTargetShort, and a call
\* in which both entry tests hold dispatches SetTargetLong only.
C15_EntriesExclusiveLongFirst ==
    /\ ~(Dispatched("SetTargetLong") /\ Dispatched("SetTargetShort"))
    /\ (Completed /\ ev.ready /\ LongTest /\ ShortTest)
       => (Dispatched("SetTargetLong") /\ ~Dispatched("SetTargetShort"))

\* both entry tests hold and the long entry was dispatched
C15_Witness ==
    /\ Completed /\ ev.ready
    /\ LongTest /\ ShortTest
    /\ ev.dispatched = <<"SetTargetLong">>

\* every bar the provider holds has low <= close <= high
SaneBars ==
    \A i \in 1..Len(market) :
        market[i].low <= market[i].close /\ market[i].close <= market[i].high

\* C16: with sane bars and commands that take effect at once, a call that
\* starts long does not end short and a call that starts short does not end
\* long: an entry against the position held is followed in the same call by
\* Liquidate, and the call ends flat.
C16_NoReversalWithinCall ==
    (Completed /\ ev.ready /\ SaneBars) =>
        /\ ev.holdings > 0 => Portfolio.Quantity >= 0
        /\ ev.holdings < 0 => Portfolio.Quantity <= 0
        /\ (ev.holdings > 0 /\ Dispatched("SetTargetShort"))
           => /\ ev.dispatched = <<"SetTargetShort", "Liquidate">>
              /\ Portfolio.Quantity = 0
        /\ (ev.holdings < 0 /\ Dispatched("SetTargetLong"))
           => /\ ev.dispatched = <<"SetTargetLong", "Liquidate">>
              /\ Portfolio.Quantity = 0

\* a call that started long dispatched the short entry and ended flat
C16_Witness ==
    /\ Completed /\ ev.ready /\ SaneBars
    /\ ev.holdings > 0
    /\ ev.dispatched = <<"SetTargetShort", "Liquidate">>
    /\ Portfolio.Quantity = 0

\* the same from a short position
C16_WitnessShort ==
    /\ Completed /\ ev.ready /\ SaneBars
    /\ ev.holdings < 0
    /\ ev.dispatched = <<"SetTargetLong", "Liquidate">>
    /\ Portfolio.Quantity = 0

====
